---- MODULE Spec2Model ----
(***************************************************************************)
(* Resolver registry of package dynamic: NewResolverMap builds the         *)
(* Type -> Field -> ResolverFunc index from a schema and a table of user   *)
(* resolvers; ResolverMap.Resolve looks a (type, field) pair up and calls  *)
(* the bound resolver; Params.Arg reads one bound argument.                *)
(***************************************************************************)
EXTENDS Integers, Sequences, FiniteSets, TLC

VARIABLES
    schema,         \* *schema.Schema handed to NewResolverMap
    userResolvers,  \* map[string]ResolverFunc handed to NewResolverMap
    resolverMap,    \* the *ResolverMap NewResolverMap returned
    built,          \* TRUE once NewResolverMap has returned
    pc,             \* per worker: position inside Resolve
    call,           \* per worker: arguments of the Resolve call in progress
    fieldResolver,  \* per worker: local of Resolve set by getFieldResolver
    ret,            \* per worker: what the last Resolve returned
    p,              \* receiver of the Params.Arg call
    argName,        \* argument of the Params.Arg call
    argOut          \* result of the Params.Arg call

vars == <<schema, userResolvers, resolverMap, built, pc, call,
          fieldResolver, ret, p, argName, argOut>>

----------------------------------------------------------------------------
(* Bounds of the model *)

MaxTypes == 2       \* types in a schema
MaxEntries == 2     \* entries in the table of user resolvers
NumWorkers == 2     \* goroutines calling Resolve concurrently
MaxArgs == 2        \* entries in Params.Args

Workers == 1..NumWorkers

----------------------------------------------------------------------------
(* Values *)

\* the nil interface{} value
Nil == "nil"
\* the nil error; an error is the chain of its messages, outermost first
NoErr == <<>>
\* a nil ResolverFunc
NilFunc == "nilfunc"

\* errors.Errorf(msg): a fresh error with no cause
Errorf(msg) == <<msg>>
\* errors.Wrap(err, msg): msg in front of the chain of err, which stays the
\* cause; nil stays nil
Wrap(err, msg) == IF err = NoErr THEN NoErr ELSE <<msg>> \o err

----------------------------------------------------------------------------
(* Params *)

\* a Go map: nil, or a finite function
NilMap == [isNil |-> TRUE, m |-> <<>>]
MakeMap(f) == [isNil |-> FALSE, m |-> f]
MapLen(mp) == IF mp.isNil THEN 0 ELSE Cardinality(DOMAIN mp.m)
\* reading an absent key, or a nil map, yields the zero value
MapGet(mp, k, zero) == IF ~mp.isNil /\ k \in DOMAIN mp.m THEN mp.m[k] ELSE zero

ArgNames == {"x", "y", "z"}
ArgValues == {"a", "b", Nil}
ArgMaps == {NilMap} \cup
    UNION {{MakeMap(f) : f \in [S -> ArgValues]} :
              S \in {T \in SUBSET ArgNames : Cardinality(T) <= MaxArgs}}

Params == [Source : {"src"}, Args : ArgMaps]

\* Arg with the emptiness test inverted
ArgInverted(params, name) ==
    IF MapLen(params.Args) # 0
    THEN Nil
    ELSE MapGet(params.Args, name, Nil)

\* func (p Params) Arg(name string) interface{}
Arg(params, name) ==
    IF MapLen(params.Args) = 0
    THEN Nil
    ELSE MapGet(params.Args, name, Nil)

----------------------------------------------------------------------------
(* Schema: the named types NewResolverMap ranges over *)

Field(name, type) == [Name |-> name, Type |-> type]

\* A schema.NamedType is a pointer; addr is its identity, so that two types
\* of the same name are still two map keys.
tUser == [addr |-> 1, Name |-> "User", kind |-> "Object",
          Fields |-> <<Field("id", "ID"), Field("name", "String")>>]
tNode == [addr |-> 2, Name |-> "Node", kind |-> "Interface",
          Fields |-> <<Field("id", "ID")>>]
tSearchResult == [addr |-> 3, Name |-> "SearchResult", kind |-> "Union",
                  Fields |-> <<>>]
tEmpty == [addr |-> 4, Name |-> "Empty", kind |-> "Object", Fields |-> <<>>]
tMetaType == [addr |-> 5, Name |-> "__Type", kind |-> "Object",
              Fields |-> <<Field("name", "String"), Field("kind", "__TypeKind")>>]
tUserB == [addr |-> 6, Name |-> "User", kind |-> "Object",
           Fields |-> <<Field("id", "ID"), Field("name", "String")>>]

TypeObjs == {tUser, tNode, tSearchResult, tEmpty, tMetaType, tUserB}

\* NamedType.TypeName()
TypeName(t) == t.Name

\* sch.Types maps each type's name to the type
SchemaOf(S) == [Types |-> [n \in {TypeName(t) : t \in S} |->
                              CHOOSE t \in S : TypeName(t) = n]]
Schemas == {SchemaOf(S) : S \in {T \in SUBSET TypeObjs :
                /\ Cardinality(T) <= MaxTypes
                /\ \A a, b \in T : TypeName(a) = TypeName(b) => a = b}}

FieldNames == {"id", "name", "email"}

----------------------------------------------------------------------------
(* Resolvers *)

\* the key built without its separator
KeyNoDot(typeName, fieldName) == typeName \o fieldName

\* the key NewResolverMap looks a field up under: t.Name+"."+f.Name
Key(typeName, fieldName) == typeName \o "." \o fieldName

\* user resolvers: ResolverFunc values supplied by the host
UserFuncs == {"h1", "h2", "hErr"}

\* func emptyResolver(params Params) (interface{}, error)
emptyResolver == "emptyResolver"

\* calling a ResolverFunc value
CallResolver(f, params) ==
    CASE f = emptyResolver -> [result |-> Nil, err |-> NoErr]
      [] f = "h1" -> [result |-> "v1", err |-> NoErr]
      [] f = "h2" -> [result |-> Arg(params, "x"), err |-> NoErr]
      [] f = "hErr" -> [result |-> "partial", err |-> Errorf("db down")]
      \* calling a nil func value panics
      [] OTHER -> [result |-> "panic", err |-> Errorf("nil func")]

\* keys of a declared field, of an undeclared field, of a type the schema may
\* lack, of a meta-type and of a union
TableKeys == {"User.name", "User.email", "Node.id", "__Type.name",
              "SearchResult.User"}

\* the tables handed in: nil, or up to MaxEntries keys bound to a user
\* resolver or to a nil func
Tables == {NilMap} \cup
    UNION {{MakeMap(f) : f \in [S -> UserFuncs \cup {NilFunc}]} :
              S \in {T \in SUBSET TableKeys : Cardinality(T) <= MaxEntries}}

----------------------------------------------------------------------------
(* NewResolverMap *)

\* var metaTypes = []string{...}
metaTypes == <<"Map", "Float", "ID", "Int", "Boolean", "String", "__Type",
               "__TypeKind", "__Directive", "__EnumValue", "__Schema",
               "__InputValue", "__DirectiveLocation", "__Field">>

\* metaType returning false at the first name that differs
metaTypeFirstOnly(typeName) == typeName = metaTypes[1]

\* func metaType(typeName string) bool
metaType(typeName) == \E i \in 1..Len(metaTypes) : typeName = metaTypes[i]

\* m[k] = v on a non-nil map
MapPut(f, k, v) == [x \in DOMAIN f \cup {k} |-> IF x = k THEN v ELSE f[x]]

\* the field loop without the nil check on the looked-up resolver
RECURSIVE FieldLoopNoFallback(_, _, _, _)
FieldLoopNoFallback(t, inputResolvers, i, fields) ==
    IF i > Len(t.Fields)
    THEN fields
    ELSE LET f == t.Fields[i]
             res == MapGet(inputResolvers, Key(t.Name, f.Name), NilFunc)
         IN FieldLoopNoFallback(t, inputResolvers, i + 1,
                MapPut(fields, f.Name, [Type |-> f.Type, ResolverFunc |-> res]))

\* for _, f := range t.Fields { ... fields[f.Name] = &FieldResolver{...} }
RECURSIVE FieldLoop(_, _, _, _)
FieldLoop(t, inputResolvers, i, fields) ==
    IF i > Len(t.Fields)
    THEN fields
    ELSE LET f == t.Fields[i]
             looked == MapGet(inputResolvers, Key(t.Name, f.Name), NilFunc)
             res == IF looked = NilFunc THEN emptyResolver ELSE looked
         IN FieldLoop(t, inputResolvers, i + 1,
                MapPut(fields, f.Name, [Type |-> f.Type, ResolverFunc |-> res]))

\* the type switch without its interface case
TypeFieldsObjectsOnly(t, inputResolvers) ==
    CASE t.kind = "Object" -> FieldLoop(t, inputResolvers, 1, <<>>)
      [] OTHER -> <<>>

\* the type switch: objects and interfaces contribute their fields, a union
\* (and any other kind) contributes none
TypeFields(t, inputResolvers) ==
    CASE t.kind = "Object" -> FieldLoop(t, inputResolvers, 1, <<>>)
      [] t.kind = "Interface" -> FieldLoop(t, inputResolvers, 1, <<>>)
      [] OTHER -> <<>>

\* the type loop without the len(fields) == 0 test
RECURSIVE TypeLoopKeepEmpty(_, _, _, _)
TypeLoopKeepEmpty(sch, inputResolvers, todo, typeMap) ==
    IF todo = {}
    THEN typeMap
    ELSE LET n == CHOOSE x \in todo : TRUE
             t == sch.Types[n]
             fields == TypeFields(t, inputResolvers)
         IN IF metaType(TypeName(t))
            THEN TypeLoopKeepEmpty(sch, inputResolvers, todo \ {n}, typeMap)
            ELSE TypeLoopKeepEmpty(sch, inputResolvers, todo \ {n},
                     MapPut(typeMap, t, [Fields |-> fields]))

\* for _, t := range sch.Types { ... typeMap[t] = &TypeResolver{Fields: fields} }
\* The order of a Go map range is unspecified; every t is a distinct key of
\* typeMap, so the result does not depend on it.
RECURSIVE TypeLoop(_, _, _, _)
TypeLoop(sch, inputResolvers, todo, typeMap) ==
    IF todo = {}
    THEN typeMap
    ELSE LET n == CHOOSE x \in todo : TRUE
             t == sch.Types[n]
             fields == TypeFields(t, inputResolvers)
         IN IF metaType(TypeName(t))
            THEN TypeLoop(sch, inputResolvers, todo \ {n}, typeMap)
            ELSE IF DOMAIN fields = {}
            THEN TypeLoop(sch, inputResolvers, todo \ {n}, typeMap)
            ELSE TypeLoop(sch, inputResolvers, todo \ {n},
                     MapPut(typeMap, t, [Fields |-> fields]))

\* func NewResolverMap(sch, inputResolvers) *ResolverMap
NewResolverMap(sch, inputResolvers) ==
    [Types |-> TypeLoop(sch, inputResolvers, DOMAIN sch.Types, <<>>)]

----------------------------------------------------------------------------
(* Resolve *)

\* a nil *FieldResolver
NoFieldResolver == [Type |-> "none", ResolverFunc |-> NilFunc]

\* getFieldResolver reporting an unknown type as a missing field
getFieldResolverOneError(rm, typ, field) ==
    IF typ \notin DOMAIN rm.Types \/ field \notin DOMAIN rm.Types[typ].Fields
    THEN [fieldResolver |-> NoFieldResolver,
          err |-> Errorf("type " \o TypeName(typ) \o " does not contain field "
                            \o field)]
    ELSE [fieldResolver |-> rm.Types[typ].Fields[field], err |-> NoErr]

\* getFieldResolver falling back to the no-op resolver for a missing field
getFieldResolverLenient(rm, typ, field) ==
    IF typ \notin DOMAIN rm.Types
    THEN [fieldResolver |-> NoFieldResolver,
          err |-> Errorf("type " \o TypeName(typ) \o " unknown")]
    ELSE IF field \notin DOMAIN rm.Types[typ].Fields
    THEN [fieldResolver |-> [Type |-> "none", ResolverFunc |-> emptyResolver],
          err |-> NoErr]
    ELSE [fieldResolver |-> rm.Types[typ].Fields[field], err |-> NoErr]

\* func (rm *ResolverMap) getFieldResolver(typ, field) (*FieldResolver, error)
getFieldResolver(rm, typ, field) ==
    IF typ \notin DOMAIN rm.Types
    THEN [fieldResolver |-> NoFieldResolver,
          err |-> Errorf("type " \o TypeName(typ) \o " unknown")]
    ELSE IF field \notin DOMAIN rm.Types[typ].Fields
    THEN [fieldResolver |-> NoFieldResolver,
          err |-> Errorf("type " \o TypeName(typ) \o " does not contain field "
                            \o field)]
    ELSE [fieldResolver |-> rm.Types[typ].Fields[field], err |-> NoErr]

\* what a Resolve call hands back; invoked records the ResolverFunc it called
NoCall == [typ |-> tEmpty, field |-> "", params |-> [Source |-> "src", Args |-> NilMap]]
NoRet == [result |-> Nil, err |-> NoErr, invoked |-> "none", returned |-> FALSE]
Return(result, err, invoked) ==
    [result |-> result, err |-> err, invoked |-> invoked, returned |-> TRUE]

\* the parameters Resolve is called with
ResolveParams == {[Source |-> "src", Args |-> NilMap],
                  [Source |-> "src", Args |-> MakeMap([x \in {"x"} |-> "a"])]}

----------------------------------------------------------------------------
(* Actions *)

\* the host builds the registry once
Build ==
    /\ ~built
    /\ resolverMap' = NewResolverMap(schema, userResolvers)
    /\ built' = TRUE
    /\ UNCHANGED <<schema, userResolvers, pc, call, fieldResolver, ret,
                   p, argName, argOut>>

\* worker w enters rm.Resolve(typ, field, params)
ResolveCall(w, typ, field, params) ==
    /\ built
    /\ pc[w] = "idle"
    /\ pc' = [pc EXCEPT ![w] = "lookup"]
    /\ call' = [call EXCEPT ![w] = [typ |-> typ, field |-> field, params |-> params]]
    /\ UNCHANGED <<schema, userResolvers, resolverMap, built, fieldResolver, ret,
                   p, argName, argOut>>

\* the lookup step registering a no-op entry for a field it did not find
ResolveLookupCaching(w) ==
    /\ pc[w] = "lookup"
    /\ LET typ == call[w].typ
           field == call[w].field
           r == getFieldResolver(resolverMap, typ, field)
       IN /\ IF r.err # NoErr
             THEN /\ ret' = [ret EXCEPT ![w] =
                                Return(Nil, Wrap(r.err, "resolver lookup"), "none")]
                  /\ pc' = [pc EXCEPT ![w] = "done"]
                  /\ UNCHANGED fieldResolver
             ELSE /\ fieldResolver' = [fieldResolver EXCEPT ![w] = r.fieldResolver]
                  /\ pc' = [pc EXCEPT ![w] = "invoke"]
                  /\ UNCHANGED ret
          /\ resolverMap' =
                IF typ \in DOMAIN resolverMap.Types
                   /\ field \notin DOMAIN resolverMap.Types[typ].Fields
                THEN [Types |-> MapPut(resolverMap.Types, typ,
                        [Fields |-> MapPut(resolverMap.Types[typ].Fields, field,
                            [Type |-> "none", ResolverFunc |-> emptyResolver])])]
                ELSE resolverMap
    /\ UNCHANGED <<schema, userResolvers, built, call, p, argName, argOut>>

\* fieldResolver, err := rm.getFieldResolver(typ, field); on an error
\* return nil, errors.Wrap(err, "resolver lookup")
ResolveLookup(w) ==
    /\ pc[w] = "lookup"
    /\ LET r == getFieldResolver(resolverMap, call[w].typ, call[w].field)
       IN IF r.err # NoErr
          THEN /\ ret' = [ret EXCEPT ![w] =
                             Return(Nil, Wrap(r.err, "resolver lookup"), "none")]
               /\ pc' = [pc EXCEPT ![w] = "done"]
               /\ UNCHANGED fieldResolver
          ELSE /\ fieldResolver' = [fieldResolver EXCEPT ![w] = r.fieldResolver]
               /\ pc' = [pc EXCEPT ![w] = "invoke"]
               /\ UNCHANGED ret
    /\ UNCHANGED <<schema, userResolvers, resolverMap, built, call, p, argName, argOut>>

\* the invoke step handing the resolver's value back next to its error
ResolveInvokePartial(w) ==
    /\ pc[w] = "invoke"
    /\ LET f == fieldResolver[w].ResolverFunc
           out == CallResolver(f, call[w].params)
       IN ret' = [ret EXCEPT ![w] =
                Return(out.result,
                    Wrap(out.err, "failed executing resolver for "
                         \o TypeName(call[w].typ) \o "." \o call[w].field), f)]
    /\ pc' = [pc EXCEPT ![w] = "done"]
    /\ UNCHANGED <<schema, userResolvers, resolverMap, built, call, fieldResolver,
                   p, argName, argOut>>

\* result, err := fieldResolver.ResolverFunc(params); on an error return
\* nil, errors.Wrapf(err, "failed executing resolver for %v.%v", ...)
ResolveInvoke(w) ==
    /\ pc[w] = "invoke"
    /\ LET f == fieldResolver[w].ResolverFunc
           out == CallResolver(f, call[w].params)
       IN ret' = [ret EXCEPT ![w] =
                IF out.err # NoErr
                THEN Return(Nil,
                         Wrap(out.err, "failed executing resolver for "
                              \o TypeName(call[w].typ) \o "." \o call[w].field), f)
                ELSE Return(out.result, NoErr, f)]
    /\ pc' = [pc EXCEPT ![w] = "done"]
    /\ UNCHANGED <<schema, userResolvers, resolverMap, built, call, fieldResolver,
                   p, argName, argOut>>

\* the caller takes what Resolve returned; the call's frame is gone
ResolveReturn(w) ==
    /\ pc[w] = "done"
    /\ pc' = [pc EXCEPT ![w] = "idle"]
    /\ call' = [call EXCEPT ![w] = NoCall]
    /\ ret' = [ret EXCEPT ![w] = NoRet]
    /\ fieldResolver' = [fieldResolver EXCEPT ![w] = NoFieldResolver]
    /\ UNCHANGED <<schema, userResolvers, resolverMap, built, p, argName, argOut>>

\* p.Arg(name)
ArgCall(name) ==
    /\ argOut' = Arg(p, name)
    /\ argName' = name
    /\ UNCHANGED <<schema, userResolvers, resolverMap, built, pc, call,
                   fieldResolver, ret, p>>

----------------------------------------------------------------------------
(* Specifications *)

NoParams == [Source |-> "src", Args |-> NilMap]

InitWorkers ==
    /\ pc = [w \in Workers |-> "idle"]
    /\ call = [w \in Workers |-> NoCall]
    /\ fieldResolver = [w \in Workers |-> NoFieldResolver]
    /\ ret = [w \in Workers |-> NoRet]

InitArgIdle ==
    /\ p = NoParams
    /\ argName = ""
    /\ argOut = Nil

\* one caller, every schema and table
Init ==
    /\ schema \in Schemas
    /\ userResolvers \in Tables
    /\ resolverMap = [Types |-> <<>>]
    /\ built = FALSE
    /\ InitWorkers
    /\ InitArgIdle

Next ==
    \/ Build
    \/ \E typ \in TypeObjs, field \in FieldNames, params \in ResolveParams :
           ResolveCall(1, typ, field, params)
    \/ ResolveLookup(1)
    \/ ResolveInvoke(1)
    \/ ResolveReturn(1)

Spec == Init /\ [][Next]_vars

\* concurrent callers of one registry
ConcSchemas == {SchemaOf({tUser, tSearchResult}), SchemaOf({tUser, tMetaType})}
ConcTables == {NilMap,
               MakeMap([k \in {"User.name"} |-> "hErr"]),
               MakeMap([k \in {"User.name", "User.email"} |-> "h1"])}
ConcTypes == {tUser, tSearchResult}
ConcFields == {"name", "email"}

InitConc ==
    /\ schema \in ConcSchemas
    /\ userResolvers \in ConcTables
    /\ resolverMap = [Types |-> <<>>]
    /\ built = FALSE
    /\ InitWorkers
    /\ InitArgIdle

NextConc ==
    \/ Build
    \/ \E w \in Workers, typ \in ConcTypes, field \in ConcFields :
           ResolveCall(w, typ, field, NoParams)
    \/ \E w \in Workers : ResolveLookup(w)
    \/ \E w \in Workers : ResolveInvoke(w)
    \/ \E w \in Workers : ResolveReturn(w)

SpecConc == InitConc /\ [][NextConc]_vars

\* Params.Arg on every argument map
InitArg ==
    /\ schema = SchemaOf({})
    /\ userResolvers = NilMap
    /\ resolverMap = [Types |-> <<>>]
    /\ built = FALSE
    /\ InitWorkers
    /\ p \in Params
    /\ argName = ""
    /\ argOut = Nil

NextArg == \E name \in ArgNames \cup {"missing"} : ArgCall(name)

SpecArg == InitArg /\ [][NextArg]_vars

----------------------------------------------------------------------------
(* Vocabulary of the properties *)

SchemaTypes == {schema.Types[n] : n \in DOMAIN schema.Types}
MetaTypeNames == {metaTypes[i] : i \in 1..Len(metaTypes)}
DeclaredFields(t) == {t.Fields[i].Name : i \in 1..Len(t.Fields)}

\* a non-meta object or interface type of the schema
Resolvable(t) ==
    /\ t \in SchemaTypes
    /\ t.kind \in {"Object", "Interface"}
    /\ TypeName(t) \notin MetaTypeNames

\* the handler the table holds under "<TypeName>.<FieldName>", NilFunc if none
HandlerFor(t, f) == MapGet(userResolvers, TypeName(t) \o "." \o f, NilFunc)

RegisteredNames == {TypeName(t) : t \in DOMAIN resolverMap.Types}

TypeNotFound(t) == <<"resolver lookup", "type " \o TypeName(t) \o " unknown">>
FieldNotFound(t, f) ==
    <<"resolver lookup", "type " \o TypeName(t) \o " does not contain field " \o f>>

Done(w) == pc[w] = "done"

----------------------------------------------------------------------------
(* Properties *)

\* C1: a Resolve of a field declared on a non-meta object or interface type
\* whose key has a handler in the table invokes exactly that handler with the
\* given params and, when the handler succeeds, returns its value and no error.
C1_ResolveInvokesBoundHandler ==
    \A w \in Workers :
        (/\ Done(w)
         /\ Resolvable(call[w].typ)
         /\ call[w].field \in DeclaredFields(call[w].typ)
         /\ HandlerFor(call[w].typ, call[w].field) # NilFunc)
        => LET h == HandlerFor(call[w].typ, call[w].field)
               out == CallResolver(h, call[w].params)
           IN /\ ret[w].invoked = h
              /\ out.err = NoErr => (ret[w].result = out.result /\ ret[w].err = NoErr)

\* the handler under "User.name" ran, not the other handler of the table, and
\* its value, which depends on the params, came back
C1_Witness ==
    /\ Done(1)
    /\ call[1].typ = tUser /\ call[1].field = "name"
    /\ ~userResolvers.isNil
    /\ DOMAIN userResolvers.m = {"User.name", "Node.id"}
    /\ userResolvers.m["User.name"] = "h2"
    /\ userResolvers.m["Node.id"] = "h1"
    /\ tNode \in SchemaTypes
    /\ ret[1].invoked = "h2"
    /\ ret[1].result = "a"
    /\ ret[1].err = NoErr

\* C2: every field entry of the registry has a non-nil handler; a declared
\* field of a retained type with no handler in the table (or a nil one) is
\* bound to the no-op handler, and a Resolve of it returns nil and no error.
C2_NoopFallback ==
    /\ \A t \in DOMAIN resolverMap.Types :
         \A f \in DOMAIN resolverMap.Types[t].Fields :
            /\ resolverMap.Types[t].Fields[f].ResolverFunc # NilFunc
            /\ HandlerFor(t, f) = NilFunc
                 => resolverMap.Types[t].Fields[f].ResolverFunc = emptyResolver
    /\ \A w \in Workers :
        (/\ Done(w)
         /\ Resolvable(call[w].typ)
         /\ call[w].field \in DeclaredFields(call[w].typ)
         /\ HandlerFor(call[w].typ, call[w].field) = NilFunc)
        => /\ ret[w].invoked = emptyResolver
           /\ ret[w].result = Nil
           /\ ret[w].err = NoErr

\* a field whose key the table maps to a nil func resolved to (nil, nil)
C2_Witness ==
    /\ Done(1)
    /\ call[1].typ = tNode /\ call[1].field = "id"
    /\ ~userResolvers.isNil
    /\ "Node.id" \in DOMAIN userResolvers.m
    /\ userResolvers.m["Node.id"] = NilFunc
    /\ ret[1].invoked = emptyResolver
    /\ ret[1].result = Nil
    /\ ret[1].err = NoErr

\* C3: no type whose name is in the meta-type list is a key of the registry,
\* whatever the table holds.
C3_NoMetaTypeKey ==
    \A t \in DOMAIN resolverMap.Types : TypeName(t) \notin MetaTypeNames

\* built from a schema with the object __Type, which declares fields, and a
\* table that holds a handler for "__Type.name"
C3_Witness ==
    /\ built
    /\ tMetaType \in SchemaTypes
    /\ ~userResolvers.isNil
    /\ "__Type.name" \in DOMAIN userResolvers.m
    /\ userResolvers.m["__Type.name"] = "h1"
    /\ DOMAIN resolverMap.Types = {tUser}

\* C4: a Resolve of a type whose name is not in the registry fails with the
\* unknown-type error and returns no value.
C4_TypeNotFound ==
    \A w \in Workers :
        (Done(w) /\ TypeName(call[w].typ) \notin RegisteredNames)
        => /\ ret[w].err = TypeNotFound(call[w].typ)
           /\ ret[w].result = Nil
           /\ ret[w].invoked = "none"

\* a union of the schema, with a handler under its name in the table, was
\* resolved against a registry that holds another type
C4_Witness ==
    /\ Done(1)
    /\ call[1].typ = tSearchResult
    /\ tSearchResult \in SchemaTypes
    /\ tUser \in DOMAIN resolverMap.Types
    /\ ret[1].err = TypeNotFound(tSearchResult)

\* C5: a Resolve of a registered type and a field the type does not declare
\* fails with the missing-field error, which is not the unknown-type error,
\* and returns no value, also when the table has a handler under that key.
C5_FieldNotFound ==
    \A w \in Workers :
        (/\ Done(w)
         /\ call[w].typ \in DOMAIN resolverMap.Types
         /\ call[w].field \notin DeclaredFields(call[w].typ))
        => /\ ret[w].err = FieldNotFound(call[w].typ, call[w].field)
           /\ ret[w].err # TypeNotFound(call[w].typ)
           /\ ret[w].result = Nil
           /\ ret[w].invoked = "none"

\* "User.email" has a handler, User declares no email, Resolve(User, email)
C5_Witness ==
    /\ Done(1)
    /\ call[1].typ = tUser /\ call[1].field = "email"
    /\ tUser \in DOMAIN resolverMap.Types
    /\ HandlerFor(tUser, "email") = "h1"
    /\ ret[1].err = FieldNotFound(tUser, "email")

\* C6: when the invoked handler returns an error, Resolve returns an error
\* whose message names the type and the field and whose cause is the
\* handler's error, and no value, whatever value the handler produced.
C6_HandlerErrorWrapped ==
    \A w \in Workers :
        (/\ Done(w)
         /\ ret[w].invoked # "none"
         /\ CallResolver(ret[w].invoked, call[w].params).err # NoErr)
        => /\ ret[w].err # NoErr
           /\ Head(ret[w].err) = "failed executing resolver for "
                   \o TypeName(call[w].typ) \o "." \o call[w].field
           /\ Tail(ret[w].err) = CallResolver(ret[w].invoked, call[w].params).err
           /\ ret[w].result = Nil

\* the handler produced "partial" together with "db down"
C6_Witness ==
    /\ Done(1)
    /\ ret[1].invoked = "hErr"
    /\ CallResolver("hErr", call[1].params).result = "partial"
    /\ ret[1].err = <<"failed executing resolver for Node.id", "db down">>
    /\ ret[1].result = Nil

\* C7: every type of the registry has at least one field entry; a type with
\* no declared field and a union are not in the registry, and a Resolve of
\* one fails with the unknown-type error.
C7_NoEmptyType ==
    /\ \A t \in DOMAIN resolverMap.Types : DOMAIN resolverMap.Types[t].Fields # {}
    /\ \A t \in SchemaTypes :
         (t.kind = "Union" \/ Len(t.Fields) = 0) => t \notin DOMAIN resolverMap.Types
    /\ \A w \in Workers :
        (/\ Done(w)
         /\ call[w].typ \in SchemaTypes
         /\ (call[w].typ.kind = "Union" \/ Len(call[w].typ.Fields) = 0))
        => ret[w].err = TypeNotFound(call[w].typ)

\* an object with no fields and a union made up the schema, the registry is
\* empty and the object was resolved
C7_Witness ==
    /\ Done(1)
    /\ SchemaTypes = {tEmpty, tSearchResult}
    /\ DOMAIN resolverMap.Types = {}
    /\ call[1].typ = tEmpty
    /\ ret[1].err = TypeNotFound(tEmpty)

\* what Resolve returns when nothing runs beside it
SequentialResolve(rm, c) ==
    LET r == getFieldResolver(rm, c.typ, c.field)
        f == r.fieldResolver.ResolverFunc
        out == CallResolver(f, c.params)
    IN IF r.err # NoErr
       THEN Return(Nil, Wrap(r.err, "resolver lookup"), "none")
       ELSE IF out.err # NoErr
       THEN Return(Nil,
                Wrap(out.err, "failed executing resolver for "
                     \o TypeName(c.typ) \o "." \o c.field), f)
       ELSE Return(out.result, NoErr, f)

\* C8: once built, no step of any number of concurrent Resolve calls changes
\* the registry, and what each call returns is fixed by the registry as
\* built, the call's arguments and its handler.
C8_RegistryReadOnly ==
    /\ [][built => resolverMap' = resolverMap]_vars
    /\ [](\A w \in Workers :
            Done(w) => ret[w] = SequentialResolve(
                                    NewResolverMap(schema, userResolvers), call[w]))

\* one worker has failed on a lookup while another is about to call a handler
C8_Witness ==
    /\ pc[1] = "done" /\ ret[1].err = FieldNotFound(tUser, "email")
    /\ pc[2] = "invoke" /\ call[2].typ = tUser /\ call[2].field = "name"
    /\ fieldResolver[2].ResolverFunc = "hErr"

\* the (type, field) pairs of a registry
RegistryPairs(rm) ==
    UNION {{<<t, f>> : f \in DOMAIN rm.Types[t].Fields} : t \in DOMAIN rm.Types}

\* C9: NewResolverMap always returns a registry, and its (type, field) pairs
\* are the fields declared on the non-meta object and interface types of the
\* schema, whatever keys the table holds.
C9_PairsAreDeclaredFields ==
    /\ ~built => ENABLED Build
    /\ built => RegistryPairs(resolverMap) =
                  UNION {{<<t, f>> : f \in DeclaredFields(t)} :
                            t \in {u \in SchemaTypes : Resolvable(u)}}

\* the table names a type the schema lacks and a field User does not declare
C9_Witness ==
    /\ built
    /\ SchemaTypes = {tUser, tNode}
    /\ ~userResolvers.isNil
    /\ DOMAIN userResolvers.m = {"SearchResult.User", "User.email"}
    /\ RegistryPairs(resolverMap) =
          {<<tUser, "id">>, <<tUser, "name">>, <<tNode, "id">>}

\* C10: Arg returns the value bound to the name when the name is a key of the
\* argument map and nil when the map is nil, empty or lacks the name, and
\* leaves the map as it was.
C10_ArgLookup ==
    [][argName' \in ArgNames \cup {"missing"}
        => /\ p' = p
           /\ argOut' = IF ~p.Args.isNil /\ argName' \in DOMAIN p.Args.m
                        THEN p.Args.m[argName']
                        ELSE Nil]_vars

\* Arg found no "z" in a map that binds "x" and "y"
C10_Witness ==
    /\ argName = "z"
    /\ ~p.Args.isNil
    /\ DOMAIN p.Args.m = {"x", "y"}
    /\ p.Args.m["x"] = "a"
    /\ argOut = Nil

====
